---- MODULE Spec2Model ----
(***************************************************************************)
(* Device hand-off between the allocation control plane (prepare /         *)
(* unprepare) and the sandbox lifecycle hooks (create / stop) of the       *)
(* kubernetes-network-drivers repository.                                  *)
(*                                                                         *)
(* The two drivers of drivers/hostdevice/main.go (hostdeviceDriver and     *)
(* nodeAgentDriver) and the SharedState table of pkg/driver/driver.go are  *)
(* translated from the source.  The Plugin framework that calls them       *)
(* (driver.NewPlugin) and the namespace plumbing (kndnet.NsAttachNetdev,   *)
(* kndnet.NsDetachNetdev) are modelled from the specification's sections   *)
(* 4.2, 4.3 and 4.4.                                                       *)
(***************************************************************************)
EXTENDS Naturals, Sequences, FiniteSets, TLC

-----------------------------------------------------------------------------
(* Universe *)

\* Workload UIDs the control plane and the runtime talk about.
UIDs == {"u1", "u2"}

\* Host links a claim may name.
Devices == {"eth0", "eth1"}

\* Every link the host can hold.
AllLinks == {"lo", "eth0", "eth1", "veth0", "docker0", "cni0", "vet1"}

\* Ghost counters saturate here.
MaxCount == 3

\* A name as the characters strings.HasPrefix looks at.
Chars(name) ==
  CASE name = "lo"      -> <<"l", "o">>
    [] name = "eth0"    -> <<"e", "t", "h", "0">>
    [] name = "eth1"    -> <<"e", "t", "h", "1">>
    [] name = "veth0"   -> <<"v", "e", "t", "h", "0">>
    [] name = "docker0" -> <<"d", "o", "c", "k", "e", "r", "0">>
    [] name = "cni0"    -> <<"c", "n", "i", "0">>
    [] name = "vet1"    -> <<"v", "e", "t", "1">>

\* The kernel's interface index: netlink.LinkList lists links in this order.
LinkIndex(name) ==
  CASE name = "lo"      -> 1
    [] name = "eth0"    -> 2
    [] name = "eth1"    -> 3
    [] name = "veth0"   -> 4
    [] name = "docker0" -> 5
    [] name = "cni0"    -> 6
    [] name = "vet1"    -> 7

\* net.FlagLoopback of a link.
IsLoopback(name) == name = "lo"

\* interface{} values: nil, or a string.
Nil == [type |-> "nil", val |-> ""]
Str(s) == [type |-> "string", val |-> s]

\* claim.Status.Allocation: nil, or the list of allocated device names.
NoAllocation == [present |-> FALSE, results |-> <<>>]
Allocation(results) == [present |-> TRUE, results |-> results]
Allocations ==
  {NoAllocation, Allocation(<<>>)}
    \cup {Allocation(<<d>>) : d \in Devices}
    \cup {Allocation(<<d, e>>) : <<d, e>> \in {p \in Devices \X Devices : p[1] # p[2]}}

\* The resource file of the node agent: missing, or its content.
FileAbsent == [exists |-> FALSE, content |-> ""]
FileWith(c) == [exists |-> TRUE, content |-> c]

-----------------------------------------------------------------------------
(* Namespace plumbing (pkg/net), from the specification's section 4.4 *)

\* MoveIn, direct mode: the host link hostIf is reparented into the target
\* namespace as podIf.  It fails when the namespace cannot be opened, when the
\* host has no such link, or when the netlink call fails.
NsAttachNetdev(hostIf, nsx, podIf, host, nsl, netlinkFails) ==
  IF ~nsx \/ hostIf \notin host \/ netlinkFails
    THEN [err |-> TRUE, host |-> host, nsl |-> nsl]
    ELSE [err |-> FALSE, host |-> host \ {hostIf}, nsl |-> nsl \cup {podIf}]

\* MoveOut, direct mode: the link podIf of the target namespace is reparented
\* to the host as hostIf.  A namespace that no longer exists, or a link that is
\* no longer in it, counts as already moved out.
NsDetachNetdev(nsx, podIf, hostIf, host, nsl) ==
  IF ~nsx \/ podIf \notin nsl
    THEN [err |-> FALSE, host |-> host, nsl |-> nsl]
    ELSE [err |-> FALSE, host |-> host \cup {hostIf}, nsl |-> nsl \ {podIf}]

-----------------------------------------------------------------------------
(* hostdeviceDriver (drivers/hostdevice/main.go) *)

\* strings.HasPrefix
HasPrefix(s, prefix) ==
  Len(s) >= Len(prefix) /\ SubSeq(s, 1, Len(prefix)) = prefix

\* netlink.LinkList: the links of the host namespace, by interface index.
RECURSIVE LinkList(_)
LinkList(host) ==
  IF host = {} THEN <<>>
  ELSE LET first == CHOOSE l \in host :
                      \A m \in host : LinkIndex(l) <= LinkIndex(m)
       IN  <<first>> \o LinkList(host \ {first})

\* The filter without the test of net.FlagUp.
SkippedIgnoresDown(name, up) ==
  \/ IsLoopback(name)
  \/ HasPrefix(Chars(name), <<"v", "e", "t", "h">>)
  \/ HasPrefix(Chars(name), <<"d", "o", "c", "k", "e", "r">>)
  \/ HasPrefix(Chars(name), <<"c", "n", "i">>)

\* The filter of GetDevices: loopback or down links, and veth*, docker*, cni*.
Skipped(name, up) ==
  \/ IsLoopback(name) \/ ~up[name]
  \/ HasPrefix(Chars(name), <<"v", "e", "t", "h">>)
  \/ HasPrefix(Chars(name), <<"d", "o", "c", "k", "e", "r">>)
  \/ HasPrefix(Chars(name), <<"c", "n", "i">>)

RECURSIVE GetDevicesLoop(_, _, _)
GetDevicesLoop(links, up, devices) ==
  IF links = <<>> THEN devices
  ELSE LET name == Head(links)
       IN  IF Skipped(name, up)
             THEN GetDevicesLoop(Tail(links), up, devices)
             ELSE GetDevicesLoop(Tail(links), up,
                    Append(devices, [Name |-> name, InterfaceName |-> name]))

hostdeviceGetDevices(host, up) == GetDevicesLoop(LinkList(host), up, <<>>)

\* PrepareDevice: the name of the first allocated device, or an error.
hostdevicePrepareDevice(allocation) ==
  IF ~allocation.present \/ Len(allocation.results) = 0
    THEN [err |-> TRUE, data |-> Nil]
    ELSE [err |-> FALSE, data |-> Str(allocation.results[1])]

\* UnprepareDevice: a no-op.
hostdeviceUnprepareDevice(host, nsl) ==
  [err |-> FALSE, host |-> host, nsl |-> nsl]

\* ConfigureDeviceForPod that takes a link already in the pod's namespace as
\* configured.
hostdeviceConfigureDeviceForPodTolerant(device, nsx, preparedData, host, nsl, netlinkFails) ==
  IF preparedData.type # "string"
    THEN [err |-> TRUE, host |-> host, nsl |-> nsl]
  ELSE IF preparedData.val \in nsl
    THEN [err |-> FALSE, host |-> host, nsl |-> nsl]
    ELSE NsAttachNetdev(preparedData.val, nsx, preparedData.val, host, nsl,
                        netlinkFails)

\* ConfigureDeviceForPod: moves the prepared device into the pod's namespace
\* under its host name.
hostdeviceConfigureDeviceForPod(device, nsx, preparedData, host, nsl, netlinkFails) ==
  IF preparedData.type # "string"
    THEN [err |-> TRUE, host |-> host, nsl |-> nsl]
    ELSE NsAttachNetdev(preparedData.val, nsx, preparedData.val, host, nsl,
                        netlinkFails)

\* CleanupDeviceForPod that fails when the pod's namespace cannot be opened.
hostdeviceCleanupDeviceForPodNeedsNamespace(device, nsx, preparedData, host, nsl) ==
  IF preparedData.type # "string" \/ ~nsx
    THEN [err |-> TRUE, host |-> host, nsl |-> nsl]
    ELSE NsDetachNetdev(nsx, preparedData.val, preparedData.val, host, nsl)

\* CleanupDeviceForPod that fails when the link is not in the pod's namespace.
hostdeviceCleanupDeviceForPodStrict(device, nsx, preparedData, host, nsl) ==
  IF preparedData.type # "string" \/ preparedData.val \notin nsl
    THEN [err |-> TRUE, host |-> host, nsl |-> nsl]
    ELSE NsDetachNetdev(nsx, preparedData.val, preparedData.val, host, nsl)

\* CleanupDeviceForPod that reports success and moves nothing.
hostdeviceCleanupDeviceForPodKeeps(device, nsx, preparedData, host, nsl) ==
  [err |-> FALSE, host |-> host, nsl |-> nsl]

\* CleanupDeviceForPod: moves the prepared device back to the host.
hostdeviceCleanupDeviceForPod(device, nsx, preparedData, host, nsl) ==
  IF preparedData.type # "string"
    THEN [err |-> TRUE, host |-> host, nsl |-> nsl]
    ELSE NsDetachNetdev(nsx, preparedData.val, preparedData.val, host, nsl)

-----------------------------------------------------------------------------
(* nodeAgentDriver (drivers/hostdevice/main.go) *)

\* os.WriteFile: creates or truncates the file, then writes.  It can fail
\* before anything changed ("open") or after the truncation ("write").
IoOutcomes == {"ok", "open", "write"}
WriteFile(file, content, io) ==
  CASE io = "ok"    -> [err |-> FALSE, file |-> FileWith(content)]
    [] io = "open"  -> [err |-> TRUE, file |-> file]
    [] io = "write" -> [err |-> TRUE, file |-> FileWith("")]

\* GetDevices: the special resource, when the resource file exists.
nodeAgentGetDevices(file) ==
  IF ~file.exists THEN <<>>
  ELSE <<[Name |-> "special-resource-0", InterfaceName |-> ""]>>

\* PrepareDevice that returns the UID and leaves the resource file alone.
nodeAgentPrepareDeviceNoWrite(uid, file, io) ==
  [err |-> FALSE, data |-> Str(uid), file |-> file]

\* PrepareDevice: writes the UID to the resource file and returns it.
nodeAgentPrepareDevice(uid, file, io) ==
  LET w == WriteFile(file, uid, io)
  IN  IF w.err THEN [err |-> TRUE, data |-> Nil, file |-> w.file]
      ELSE [err |-> FALSE, data |-> Str(uid), file |-> w.file]

\* UnprepareDevice: clears the resource file.
nodeAgentUnprepareDevice(file, io) == WriteFile(file, "", io)

\* ConfigureDeviceForPod and CleanupDeviceForPod: no-ops.
nodeAgentConfigureDeviceForPod(host, nsl) ==
  [err |-> FALSE, host |-> host, nsl |-> nsl]

nodeAgentCleanupDeviceForPod(host, nsl) ==
  [err |-> FALSE, host |-> host, nsl |-> nsl]

-----------------------------------------------------------------------------
(* The watch controller (drivers/subinterface/controlller/main.go) *)

controllerName == "sample-controller"
driverName == "gpu.example.com"

ClaimUIDs == {"c1", "c2"}
DeviceClassNames == {driverName, "other.example.com"}
MaxVersion == 3

\* The ResourceClaims the informer can deliver: allocated or not, naming a
\* device class, at some resource version.
ClaimObjects ==
  [UID : ClaimUIDs, Allocated : BOOLEAN, DeviceClassName : DeviceClassNames,
   ResourceVersion : 1..MaxVersion]

\* A call of the cluster API reaches the server or fails on the way.
ApiOutcomes == {"ok", "error"}

\* ResourceSlice name made from what changes with every update of the claim.
getResourceSliceNamePerVersion(claim) ==
  controllerName \o "-" \o claim.UID \o "-" \o ToString(claim.ResourceVersion)

\* getResourceSliceName: controllerName "-" UID.
getResourceSliceName(claim) == controllerName \o "-" \o claim.UID

\* IsDeviceClassRelevant: the class is the one named after the driver.
IsDeviceClassRelevant(deviceClass) == deviceClass.Name = driverName

\* Reconcile: the ResourceSlice of the claim, with its one virtual device.
Reconcile(claim) ==
  [Name |-> getResourceSliceName(claim),
   Device |-> "virtual-gpu-" \o claim.UID,
   Owner |-> ""]

\* SetOwnerReferences with the controller reference of the claim.
SetOwnerReferences(resourceSlice, claim) ==
  [resourceSlice EXCEPT !.Owner = claim.UID]

\* DeviceClasses().Get: the class of that name, or an error (NotFound too).
DeviceClassesGet(classes, name, api) ==
  IF api = "error" \/ name \notin classes
    THEN [err |-> TRUE, deviceClass |-> [Name |-> ""]]
    ELSE [err |-> FALSE, deviceClass |-> [Name |-> name]]

SliceNames(store) == {s.Name : s \in store}

\* ResourceSlices().Create: AlreadyExists when the name is taken, and the
\* stored slice stays as it is.
ResourceSlicesCreate(store, resourceSlice, api) ==
  CASE api = "error" -> [err |-> "other", store |-> store]
    [] resourceSlice.Name \in SliceNames(store) ->
         [err |-> "AlreadyExists", store |-> store]
    [] OTHER -> [err |-> "", store |-> store \cup {resourceSlice}]

\* ResourceSlices().Delete: NotFound when there is no slice of that name.
ResourceSlicesDelete(store, name, api) ==
  CASE api = "error" -> [err |-> "other", store |-> store]
    [] name \notin SliceNames(store) -> [err |-> "NotFound", store |-> store]
    [] OTHER -> [err |-> "", store |-> {s \in store : s.Name # name}]

\* sampleReconciler.Delete: deletes the claim's slice; NotFound is a success.
Delete(claim, store, api) ==
  LET d == ResourceSlicesDelete(store, getResourceSliceName(claim), api)
  IN  [err |-> d.err \notin {"", "NotFound"}, store |-> d.store]

\* Controller.addOrUpdate: what it logs last, and the slices afterwards.
addOrUpdate(claim, classes, store, getApi, createApi) ==
  IF ~claim.Allocated THEN [log |-> "no-allocation", store |-> store]
  ELSE LET g == DeviceClassesGet(classes, claim.DeviceClassName, getApi)
       IN  IF g.err THEN [log |-> "error-get-class", store |-> store]
           ELSE IF ~IsDeviceClassRelevant(g.deviceClass)
             THEN [log |-> "not-relevant", store |-> store]
           ELSE LET resourceSlice == SetOwnerReferences(Reconcile(claim), claim)
                    c == ResourceSlicesCreate(store, resourceSlice, createApi)
                IN  [log |-> CASE c.err = "" -> "created"
                               [] c.err = "AlreadyExists" -> "already-exists"
                               [] OTHER -> "error-create",
                     store |-> c.store]

\* The object of a delete event: the claim, or a tombstone that holds it.
ObjectKinds == {"claim", "tombstone"}
ClaimOf(kind, claim) == claim

\* Controller.delete: what it logs last, and the slices afterwards.
delete(kind, claim, store, api) ==
  LET d == Delete(ClaimOf(kind, claim), store, api)
  IN  [log |-> IF d.err THEN "error-delete" ELSE "deleted", store |-> d.store]

-----------------------------------------------------------------------------
(* Sub-interfaces (pkg/net/subinterfaces.go) *)

SubKinds == {"macvlan", "ipvlan"}

OtherKind(kind) == IF kind = "macvlan" THEN "ipvlan" ELSE "macvlan"

\* The name addMacVlan and addIPVlan give the slave of devName.  They are the
\* only creators of slaves, so a slave's name tells its kind and its parent.
SlaveName(kind, devName) ==
  IF kind = "macvlan" THEN "mavlan-" \o devName ELSE "ipvaln-" \o devName

\* The parent has a slave of this kind in some namespace.
HasSlave(kind, parent, links) == SlaveName(kind, parent) \in links

\* The namespace netlink.LinkAdd creates the slave in.  LinkAttrs.NetNsID holds
\* the descriptor of the container's namespace: the slave is created there
\* when netlink takes the link's namespace from that field, and in the calling
\* (host) namespace when it does not.
Placements == {"target", "host"}

\* netlink.LinkAdd of a slave: the kernel refuses a name the namespace already
\* holds (EEXIST) and a slave on a parent that has a slave of the other kind
\* (EBUSY).  links: the links of every namespace.
LinkAdd(kind, name, parent, placement, host, nsl, links) ==
  LET into == IF placement = "target" THEN nsl ELSE host
  IN  IF name \in into
        THEN [errno |-> "EEXIST", host |-> host, nsl |-> nsl]
      ELSE IF HasSlave(OtherKind(kind), parent, links)
        THEN [errno |-> "EBUSY", host |-> host, nsl |-> nsl]
      ELSE IF placement = "target"
        THEN [errno |-> "", host |-> host, nsl |-> nsl \cup {name}]
        ELSE [errno |-> "", host |-> host \cup {name}, nsl |-> nsl]

\* An error value: what kind of error it is and the links its message names.
NoError == [kind |-> "", names |-> {}]
Error(kind, names) == [kind |-> kind, names |-> names]

\* addMacVlan and addIPVlan differ in the slave's type and name only.
addSlave(kind, nsx, devName, placement, host, nsl, links) ==
  IF ~nsx
    THEN [err |-> Error("netns", {devName}), host |-> host, nsl |-> nsl]
  ELSE IF devName \notin host
    THEN [err |-> Error("noparent", {devName}), host |-> host, nsl |-> nsl]
  ELSE LET name == SlaveName(kind, devName)
           r == LinkAdd(kind, name, devName, placement, host, nsl, links)
       IN  IF r.errno # ""
             THEN [err |-> Error("create", {name}), host |-> r.host, nsl |-> r.nsl]
             ELSE [err |-> NoError, host |-> r.host, nsl |-> r.nsl]

addMacVlan(nsx, devName, placement, host, nsl, links) ==
  addSlave("macvlan", nsx, devName, placement, host, nsl, links)

addIPVlan(nsx, devName, placement, host, nsl, links) ==
  addSlave("ipvlan", nsx, devName, placement, host, nsl, links)

\* MoveOut, sub-interface modes: the slave is deleted from the target
\* namespace.  A namespace that no longer exists, or a slave that is not in
\* it, counts as already moved out.
NsDeleteSlave(nsx, name, host, nsl) ==
  IF ~nsx \/ name \notin nsl
    THEN [err |-> NoError, host |-> host, nsl |-> nsl]
    ELSE [err |-> NoError, host |-> host, nsl |-> nsl \ {name}]

\* An entry of the informer's store: the claim as last delivered.
NoClaim == [UID |-> "", Allocated |-> FALSE, DeviceClassName |-> "",
            ResourceVersion |-> 0]
NotSeen == [phase |-> "unseen", claim |-> NoClaim]
Cached(claim) == [phase |-> "cached", claim |-> claim]
Gone(claim) == [phase |-> "deleted", claim |-> claim]

\* The slices whose controller reference names the claim's UID.
SlicesOf(store, uid) == {s \in store : s.Owner = uid}

\* The event handled last: the handler, the claim's UID, the last line the
\* handler logged, and whether the claim had a slice when it was called.
Handled(op, uid, log, had) == [op |-> op, uid |-> uid, log |-> log, had |-> had]

VARIABLES
  driverKind,       \* which driver.Driver the process was started with
  hostLinks,        \* links in the host network namespace
  linkUp,           \* net.FlagUp of every link
  nsExists,         \* whether the workload's network namespace exists
  nsLinks,          \* links inside each workload's network namespace
  resourceFile,     \* /tmp/special-node-resource
  PodDeviceConfig,  \* SharedState.PodDeviceConfig
  PreparedData,     \* SharedState.PreparedData
  active,           \* operations in flight for each UID
  podState,         \* the hook dispatcher's state of each workload
  hookWaiting,      \* a sandbox-create hook waits for the PreparedState
  published,        \* the inventory last published from GetDevices
  lastRet,          \* the call that returned last, and what it returned
  firstState,       \* the PreparedState the first successful prepare returned
  driverPrepares,   \* driver.PrepareDevice successes since the last unprepare
  fileWrites,       \* successful writes of the resource file by PrepareDevice
  slices,           \* the ResourceSlices the cluster API stores
  deviceClasses,    \* names of the DeviceClasses the cluster API stores
  informer,         \* the informer's store of ResourceClaims
  handled           \* the event the controller handled last

vars == <<driverKind, hostLinks, linkUp, nsExists, nsLinks, resourceFile,
          PodDeviceConfig, PreparedData, active, podState, hookWaiting,
          published, lastRet, firstState, driverPrepares, fileWrites,
          slices, deviceClasses, informer, handled>>

ctrlVars == <<slices, deviceClasses, informer, handled>>

-----------------------------------------------------------------------------
(* The driver the process was started with (driver.Driver) *)

\* Only the node agent touches a file.
DriverIo(kind) == IF kind = "nodeagent" THEN IoOutcomes ELSE {"ok"}

DriverGetDevices(kind, host, up, file) ==
  IF kind = "hostdevice" THEN hostdeviceGetDevices(host, up)
  ELSE nodeAgentGetDevices(file)

DriverPrepareDevice(kind, uid, allocation, file, io) ==
  IF kind = "hostdevice"
    THEN LET r == hostdevicePrepareDevice(allocation)
         IN  [err |-> r.err, data |-> r.data, file |-> file, writes |-> 0]
    ELSE LET r == nodeAgentPrepareDevice(uid, file, io)
         IN  [err |-> r.err, data |-> r.data, file |-> r.file,
              writes |-> IF r.file = FileWith(uid) /\ ~r.err THEN 1 ELSE 0]

DriverUnprepareDevice(kind, file, io, host, nsl) ==
  IF kind = "hostdevice"
    THEN LET r == hostdeviceUnprepareDevice(host, nsl)
         IN  [err |-> r.err, file |-> file, host |-> r.host, nsl |-> r.nsl]
    ELSE LET r == nodeAgentUnprepareDevice(file, io)
         IN  [err |-> r.err, file |-> r.file, host |-> host, nsl |-> nsl]

DriverConfigureDeviceForPod(kind, device, nsx, preparedData, host, nsl, netlinkFails) ==
  IF kind = "hostdevice"
    THEN hostdeviceConfigureDeviceForPod(device, nsx, preparedData, host, nsl,
                                         netlinkFails)
    ELSE nodeAgentConfigureDeviceForPod(host, nsl)

DriverCleanupDeviceForPod(kind, device, nsx, preparedData, host, nsl) ==
  IF kind = "hostdevice"
    THEN hostdeviceCleanupDeviceForPod(device, nsx, preparedData, host, nsl)
    ELSE nodeAgentCleanupDeviceForPod(host, nsl)

-----------------------------------------------------------------------------
(* The Plugin framework: the state table and the hook dispatcher *)

OpKinds == {"prepare", "unprepare", "configure", "cleanup"}
PodStates == {"Unconfigured", "Configuring", "Configured", "Cleaning", "Cleaned"}

\* A PreparedState: the driver's data and the workload's allocated devices.
NoState == [data |-> Nil, devices |-> <<>>]

HasPreparedState(u) == u \in DOMAIN PreparedData

PreparedStateOf(u) ==
  IF u \in DOMAIN PreparedData /\ u \in DOMAIN PodDeviceConfig
    THEN [data |-> PreparedData[u], devices |-> PodDeviceConfig[u]]
    ELSE NoState

\* The AllocatedDevices of a claim's allocation result.
AllocatedDevices(allocation) ==
  [i \in 1..Len(allocation.results) |-> [Name |-> allocation.results[i]]]

\* The device names a UID's PreparedState lists.
DeviceNames(u) ==
  IF u \in DOMAIN PodDeviceConfig
    THEN {PodDeviceConfig[u][i].Name : i \in 1..Len(PodDeviceConfig[u])}
    ELSE {}

\* A Put that stores nothing for an empty list.
PutUnlessEmpty(table, u, v) ==
  IF v = <<>> THEN table
  ELSE [k \in DOMAIN table \cup {u} |-> IF k = u THEN v ELSE table[k]]

Put(table, u, v) == [k \in DOMAIN table \cup {u} |-> IF k = u THEN v ELSE table[k]]
Remove(table, u) == [k \in DOMAIN table \ {u} |-> table[k]]

Bump(n) == IF n < MaxCount THEN n + 1 ELSE n

\* A returned call: the operation, its UID, its result, whether it found a
\* PreparedState, the PreparedState it returned, the moves it undid, and
\* whether the driver prepared a claim without allocated devices.
Ret(op, u, res, hit, state, undone) ==
  [op |-> op, uid |-> u, res |-> res, hit |-> hit, state |-> state,
   undone |-> undone, noalloc |-> FALSE, dev |-> "", names |-> {}]

\* A returned MoveIn or MoveOut of a sub-interface: its mode, its UID, the
\* parent it named, and the error it returned.
RetMove(op, u, devName, err) ==
  [Ret(op, u, IF err = NoError THEN "ok" ELSE err.kind, FALSE, NoState, 0)
     EXCEPT !.dev = devName, !.names = err.names]

\* The claim carries no allocation, or an allocation without device results.
HasNoAllocatedDevices(allocation) ==
  ~allocation.present \/ Len(allocation.results) = 0

\* One lock for the whole table: an operation starts when none is in flight.
TryLockGlobal(u) == \A v \in UIDs : active[v] = {}

\* The per-UID exclusion: an operation for u starts when none is in flight for u.
TryLock(u) == active[u] = {}

Acquire(u, op) == active' = [active EXCEPT ![u] = @ \cup {op}]
Release(u, op) == active' = [active EXCEPT ![u] = @ \ {op}]

\* Rollback of a failed sandbox creation: the devices already moved are moved
\* back, last first.
RECURSIVE Rollback(_, _, _, _, _, _, _)
Rollback(kind, moved, nsx, data, host, nsl, undone) ==
  IF moved = <<>>
    THEN [err |-> TRUE, host |-> host, nsl |-> nsl, undone |-> undone]
  ELSE LET r == DriverCleanupDeviceForPod(kind, moved[Len(moved)], nsx, data,
                                          host, nsl)
       IN  Rollback(kind, SubSeq(moved, 1, Len(moved) - 1), nsx, data,
                    r.host, r.nsl, undone + 1)

\* Configuring: MoveIn for every AllocatedDevice, in order; netlink fails at
\* device failAt (0: nowhere).
RECURSIVE ConfigureAll(_, _, _, _, _, _, _, _)
ConfigureAll(kind, devices, i, nsx, data, host, nsl, failAt) ==
  IF i > Len(devices)
    THEN [err |-> FALSE, host |-> host, nsl |-> nsl, undone |-> 0]
  ELSE LET r == DriverConfigureDeviceForPod(kind, devices[i], nsx, data,
                                            host, nsl, failAt = i)
       IN  IF r.err
             THEN Rollback(kind, SubSeq(devices, 1, i - 1), nsx, data,
                           r.host, r.nsl, 0)
             ELSE ConfigureAll(kind, devices, i + 1, nsx, data, r.host, r.nsl,
                               failAt)

\* What a sandbox-create call has applied when its deadline expires during
\* the move of device upto: ConfigureDeviceForPod takes no context, so the
\* call for that device runs to its end and the devices after it are left.
RECURSIVE ConfigureUntil(_, _, _, _, _, _, _, _)
ConfigureUntil(kind, devices, i, upto, nsx, data, host, nsl) ==
  IF i > upto THEN [err |-> FALSE, host |-> host, nsl |-> nsl]
  ELSE LET r == DriverConfigureDeviceForPod(kind, devices[i], nsx, data,
                                            host, nsl, FALSE)
       IN  IF r.err THEN [err |-> TRUE, host |-> r.host, nsl |-> r.nsl]
           ELSE ConfigureUntil(kind, devices, i + 1, upto, nsx, data,
                               r.host, r.nsl)

\* The same for a sandbox-stop call and CleanupDeviceForPod.
RECURSIVE CleanupUntil(_, _, _, _, _, _, _, _)
CleanupUntil(kind, devices, i, upto, nsx, data, host, nsl) ==
  IF i > upto THEN [err |-> FALSE, host |-> host, nsl |-> nsl]
  ELSE LET r == DriverCleanupDeviceForPod(kind, devices[i], nsx, data,
                                          host, nsl)
       IN  IF r.err THEN [err |-> TRUE, host |-> r.host, nsl |-> r.nsl]
           ELSE CleanupUntil(kind, devices, i + 1, upto, nsx, data,
                             r.host, r.nsl)

\* Cleaning: MoveOut for every AllocatedDevice.
RECURSIVE CleanupAll(_, _, _, _, _, _, _)
CleanupAll(kind, devices, i, nsx, data, host, nsl) ==
  IF i > Len(devices) THEN [err |-> FALSE, host |-> host, nsl |-> nsl]
  ELSE LET r == DriverCleanupDeviceForPod(kind, devices[i], nsx, data,
                                          host, nsl)
       IN  IF r.err THEN [err |-> TRUE, host |-> r.host, nsl |-> r.nsl]
           ELSE CleanupAll(kind, devices, i + 1, nsx, data, r.host, r.nsl)

-----------------------------------------------------------------------------
(* Initial states *)

\* The watch controller has started: no event handled, no slice created.
InitController ==
  /\ slices = {}
  /\ deviceClasses = {driverName}
  /\ informer = [c \in ClaimUIDs |-> NotSeen]
  /\ handled = Handled("none", "", "", FALSE)

\* What Init and InitRegistry share: nothing prepared, nothing in flight.
InitFramework ==
  /\ nsExists = [u \in UIDs |-> TRUE]
  /\ nsLinks = [u \in UIDs |-> {}]
  /\ PodDeviceConfig = [u \in {} |-> <<>>]
  /\ PreparedData = [u \in {} |-> Nil]
  /\ active = [u \in UIDs |-> {}]
  /\ podState = [u \in UIDs |-> "Unconfigured"]
  /\ hookWaiting = [u \in UIDs |-> FALSE]
  /\ published = <<>>
  /\ lastRet = Ret("none", "", "ok", FALSE, NoState, 0)
  /\ firstState = [u \in UIDs |-> NoState]
  /\ driverPrepares = [u \in UIDs |-> 0]
  /\ fileWrites = [u \in UIDs |-> 0]
  /\ InitController

\* The hostdevice driver's process starts on a host with every link up.
Init ==
  /\ driverKind = "hostdevice"
  /\ hostLinks = AllLinks
  /\ linkUp = [l \in AllLinks |-> TRUE]
  /\ resourceFile = FileAbsent
  /\ InitFramework

\* The node agent's process starts with or without its resource file.
InitAgent ==
  /\ driverKind = "nodeagent"
  /\ hostLinks = AllLinks
  /\ linkUp = [l \in AllLinks |-> TRUE]
  /\ resourceFile \in {FileAbsent, FileWith("")}
  /\ InitFramework

-----------------------------------------------------------------------------
(* Allocation control plane: PrepareDevice and UnprepareDevice *)

netVars == <<hostLinks, linkUp, nsExists, nsLinks>>
tableVars == <<PodDeviceConfig, PreparedData>>
ghostVars == <<firstState, driverPrepares, fileWrites>>

PrepareBegin(u) ==
  /\ TryLock(u)
  /\ Acquire(u, "prepare")
  /\ UNCHANGED <<ctrlVars, driverKind, netVars, resourceFile, tableVars, podState,
                 hookWaiting, published, lastRet, ghostVars>>

\* A UID that has a PreparedState gets it back; otherwise the driver prepares
\* the claim and the result is stored.
PrepareEnd(u) ==
  /\ "prepare" \in active[u]
  /\ Release(u, "prepare")
  /\ \E allocation \in Allocations, io \in DriverIo(driverKind) :
       IF HasPreparedState(u)
         THEN /\ lastRet' = Ret("prepare", u, "ok", TRUE, PreparedStateOf(u), 0)
              /\ UNCHANGED <<resourceFile, tableVars, ghostVars>>
         ELSE LET r == DriverPrepareDevice(driverKind, u, allocation,
                                           resourceFile, io)
                  st == [data |-> r.data, devices |-> AllocatedDevices(allocation)]
              IN  /\ resourceFile' = r.file
                  /\ IF r.err
                       THEN /\ lastRet' =
                                 [Ret("prepare", u, "error", FALSE, NoState, 0)
                                    EXCEPT !.noalloc = HasNoAllocatedDevices(allocation)]
                            /\ UNCHANGED <<tableVars, ghostVars>>
                       ELSE /\ PreparedData' = Put(PreparedData, u, st.data)
                            /\ PodDeviceConfig' = Put(PodDeviceConfig, u, st.devices)
                            /\ lastRet' =
                                 [Ret("prepare", u, "ok", FALSE, st, 0)
                                    EXCEPT !.noalloc = HasNoAllocatedDevices(allocation)]
                            /\ firstState' = [firstState EXCEPT ![u] = st]
                            /\ driverPrepares' =
                                 [driverPrepares EXCEPT ![u] = Bump(@)]
                            /\ fileWrites' =
                                 [fileWrites EXCEPT ![u] =
                                    IF r.writes > 0 THEN Bump(@) ELSE @]
  /\ UNCHANGED <<ctrlVars, driverKind, netVars, podState, hookWaiting, published>>

UnprepareBegin(u) ==
  /\ TryLock(u)
  /\ Acquire(u, "unprepare")
  /\ UNCHANGED <<ctrlVars, driverKind, netVars, resourceFile, tableVars, podState,
                 hookWaiting, published, lastRet, ghostVars>>

\* UnprepareDevice that calls the driver whether or not the UID is prepared.
UnprepareEndUnguarded(u) ==
  /\ "unprepare" \in active[u]
  /\ Release(u, "unprepare")
  /\ \E io \in DriverIo(driverKind) :
       LET r == DriverUnprepareDevice(driverKind, resourceFile, io,
                                      hostLinks, nsLinks[u])
       IN  /\ resourceFile' = r.file
           /\ hostLinks' = r.host
           /\ nsLinks' = [nsLinks EXCEPT ![u] = r.nsl]
           /\ PreparedData' = IF r.err THEN PreparedData
                               ELSE Remove(PreparedData, u)
           /\ PodDeviceConfig' = IF r.err THEN PodDeviceConfig
                                  ELSE Remove(PodDeviceConfig, u)
           /\ lastRet' = Ret("unprepare", u, IF r.err THEN "error" ELSE "ok",
                             HasPreparedState(u), NoState, 0)
           /\ firstState' = IF r.err THEN firstState
                             ELSE [firstState EXCEPT ![u] = NoState]
           /\ driverPrepares' = IF r.err THEN driverPrepares
                                 ELSE [driverPrepares EXCEPT ![u] = 0]
           /\ fileWrites' = IF r.err THEN fileWrites
                             ELSE [fileWrites EXCEPT ![u] = 0]
  /\ UNCHANGED <<ctrlVars, driverKind, linkUp, nsExists, podState, hookWaiting, published>>

\* A UID without PreparedState is already clean; otherwise the driver
\* unprepares and, when it succeeds, the entry is removed.
UnprepareEnd(u) ==
  /\ "unprepare" \in active[u]
  /\ Release(u, "unprepare")
  /\ \E io \in DriverIo(driverKind) :
       IF ~HasPreparedState(u)
         THEN /\ lastRet' = Ret("unprepare", u, "ok", FALSE, NoState, 0)
              /\ UNCHANGED <<resourceFile, tableVars, ghostVars, hostLinks,
                             nsLinks>>
         ELSE LET r == DriverUnprepareDevice(driverKind, resourceFile, io,
                                             hostLinks, nsLinks[u])
              IN  /\ resourceFile' = r.file
                  /\ hostLinks' = r.host
                  /\ nsLinks' = [nsLinks EXCEPT ![u] = r.nsl]
                  /\ IF r.err
                       THEN /\ lastRet' = Ret("unprepare", u, "error", TRUE, NoState, 0)
                            /\ UNCHANGED <<tableVars, ghostVars>>
                       ELSE /\ PreparedData' = Remove(PreparedData, u)
                            /\ PodDeviceConfig' = Remove(PodDeviceConfig, u)
                            /\ lastRet' = Ret("unprepare", u, "ok", TRUE, NoState, 0)
                            /\ firstState' = [firstState EXCEPT ![u] = NoState]
                            /\ driverPrepares' = [driverPrepares EXCEPT ![u] = 0]
                            /\ fileWrites' = [fileWrites EXCEPT ![u] = 0]
  /\ UNCHANGED <<ctrlVars, driverKind, linkUp, nsExists, podState, hookWaiting, published>>

-----------------------------------------------------------------------------
(* Sandbox hooks *)

\* A sandbox-create hook that fails at once when it finds no PreparedState.
SandboxCreateFailsOutright(u) ==
  /\ TryLock(u)
  /\ podState[u] = "Unconfigured"
  /\ ~HasPreparedState(u)
  /\ lastRet' = Ret("create", u, "error", FALSE, NoState, 0)
  /\ UNCHANGED <<ctrlVars, driverKind, netVars, resourceFile, tableVars, active, podState,
                 hookWaiting, published, ghostVars>>

\* The sandbox-create hook finds no PreparedState yet: it waits.
SandboxCreateWait(u) ==
  /\ TryLock(u)
  /\ podState[u] = "Unconfigured"
  /\ ~HasPreparedState(u)
  /\ hookWaiting' = [hookWaiting EXCEPT ![u] = TRUE]
  /\ UNCHANGED <<ctrlVars, driverKind, netVars, resourceFile, tableVars, active, podState,
                 published, lastRet, ghostVars>>

\* The waiting hook's deadline expires before the PreparedState appeared.
SandboxCreateDeadline(u) ==
  /\ TryLock(u)
  /\ hookWaiting[u]
  /\ ~HasPreparedState(u)
  /\ hookWaiting' = [hookWaiting EXCEPT ![u] = FALSE]
  /\ lastRet' = Ret("create", u, "timeout", FALSE, NoState, 0)
  /\ UNCHANGED <<ctrlVars, driverKind, netVars, resourceFile, tableVars, active, podState,
                 published, ghostVars>>

\* Unconfigured -> Configuring: the hook (or its retry) finds the PreparedState.
SandboxCreateBegin(u) ==
  /\ TryLock(u)
  /\ podState[u] = "Unconfigured"
  /\ HasPreparedState(u)
  /\ Acquire(u, "configure")
  /\ podState' = [podState EXCEPT ![u] = "Configuring"]
  /\ hookWaiting' = [hookWaiting EXCEPT ![u] = FALSE]
  /\ UNCHANGED <<ctrlVars, driverKind, netVars, resourceFile, tableVars, published,
                 lastRet, ghostVars>>

\* Configuring -> Configured, or back to Unconfigured after the rollback.
SandboxCreateEnd(u) ==
  /\ "configure" \in active[u]
  /\ Release(u, "configure")
  /\ LET st == PreparedStateOf(u)
     IN  \E failAt \in 0..Len(st.devices) :
           LET r == ConfigureAll(driverKind, st.devices, 1, nsExists[u],
                                 st.data, hostLinks, nsLinks[u], failAt)
           IN  /\ hostLinks' = r.host
               /\ nsLinks' = [nsLinks EXCEPT ![u] = r.nsl]
               /\ podState' = [podState EXCEPT ![u] =
                                 IF r.err THEN "Unconfigured" ELSE "Configured"]
               /\ lastRet' = Ret("create", u, IF r.err THEN "error" ELSE "ok",
                                 TRUE, NoState, r.undone)
  /\ UNCHANGED <<ctrlVars, driverKind, linkUp, nsExists, resourceFile, tableVars,
                 hookWaiting, published, ghostVars>>

\* Configured -> Cleaning.
SandboxStopBegin(u) ==
  /\ TryLock(u)
  /\ podState[u] = "Configured"
  /\ Acquire(u, "cleanup")
  /\ podState' = [podState EXCEPT ![u] = "Cleaning"]
  /\ UNCHANGED <<ctrlVars, driverKind, netVars, resourceFile, tableVars, hookWaiting,
                 published, lastRet, ghostVars>>

\* Cleaning -> Cleaned.
SandboxStopEnd(u) ==
  /\ "cleanup" \in active[u]
  /\ Release(u, "cleanup")
  /\ LET st == PreparedStateOf(u)
         r == CleanupAll(driverKind, st.devices, 1, nsExists[u], st.data,
                         hostLinks, nsLinks[u])
     IN  /\ hostLinks' = r.host
         /\ nsLinks' = [nsLinks EXCEPT ![u] = r.nsl]
         /\ podState' = [podState EXCEPT ![u] =
                           IF r.err THEN "Configured" ELSE "Cleaned"]
         /\ lastRet' = Ret("stop", u, IF r.err THEN "error" ELSE "ok",
                           HasPreparedState(u), NoState, 0)
  /\ UNCHANGED <<ctrlVars, driverKind, linkUp, nsExists, resourceFile, tableVars,
                 hookWaiting, published, ghostVars>>

\* A sandbox-create hook after Cleaned that starts the lifecycle again.
SandboxEventAfterCleanedRestarts(u) ==
  /\ TryLock(u)
  /\ podState[u] = "Cleaned"
  /\ podState' = [podState EXCEPT ![u] = "Unconfigured"]
  /\ lastRet' = Ret("create", u, "ok", FALSE, NoState, 0)
  /\ UNCHANGED <<ctrlVars, driverKind, netVars, resourceFile, tableVars, active,
                 hookWaiting, published, ghostVars>>

\* A hook that arrives after Cleaned is logged and ignored.
SandboxEventAfterCleaned(u) ==
  /\ TryLock(u)
  /\ podState[u] = "Cleaned"
  /\ \E op \in {"create", "stop"} :
       lastRet' = Ret(op, u, "ok", FALSE, NoState, 0)
  /\ UNCHANGED <<ctrlVars, driverKind, netVars, resourceFile, tableVars, active, podState,
                 hookWaiting, published, ghostVars>>

-----------------------------------------------------------------------------
(* Environment and inventory publication *)

\* The sandbox is force-removed: its namespace and the links in it are gone.
NamespaceRemoved(u) ==
  /\ nsExists[u]
  /\ nsExists' = [nsExists EXCEPT ![u] = FALSE]
  /\ nsLinks' = [nsLinks EXCEPT ![u] = {}]
  /\ UNCHANGED <<ctrlVars, driverKind, hostLinks, linkUp, resourceFile, tableVars, active,
                 podState, hookWaiting, published, lastRet, ghostVars>>

\* The framework publishes what GetDevices returns.
PublishDevices ==
  /\ published' = DriverGetDevices(driverKind, hostLinks, linkUp, resourceFile)
  /\ UNCHANGED <<ctrlVars, driverKind, netVars, resourceFile, tableVars, active, podState,
                 hookWaiting, lastRet, ghostVars>>

\* The links of every namespace.
EveryLink == hostLinks \cup UNION {nsLinks[u] : u \in UIDs}

\* MoveIn, direct mode: the driver moves a host link into the workload's
\* namespace.
MoveInDirect(u) ==
  /\ \E devName \in Devices, netlinkFails \in BOOLEAN :
       LET r == hostdeviceConfigureDeviceForPod([Name |-> devName], nsExists[u],
                  Str(devName), hostLinks, nsLinks[u], netlinkFails)
       IN  /\ hostLinks' = r.host
           /\ nsLinks' = [nsLinks EXCEPT ![u] = r.nsl]
           /\ lastRet' = RetMove("direct", u, devName,
                                 IF r.err THEN Error("attach", {devName})
                                 ELSE NoError)
  /\ UNCHANGED <<ctrlVars, driverKind, linkUp, nsExists, resourceFile, tableVars, active,
                 podState, hookWaiting, published, ghostVars>>

\* MoveOut, direct mode: the driver moves the link back to the host.
MoveOutDirect(u) ==
  /\ \E devName \in Devices :
       LET r == hostdeviceCleanupDeviceForPod([Name |-> devName], nsExists[u],
                  Str(devName), hostLinks, nsLinks[u])
       IN  /\ hostLinks' = r.host
           /\ nsLinks' = [nsLinks EXCEPT ![u] = r.nsl]
           /\ lastRet' = RetMove("moveout-direct", u, devName,
                                 IF r.err THEN Error("detach", {devName})
                                 ELSE NoError)
  /\ UNCHANGED <<ctrlVars, driverKind, linkUp, nsExists, resourceFile, tableVars, active,
                 podState, hookWaiting, published, ghostVars>>

\* MoveIn, macvlan mode: a macvlan slave of a host link for the workload.
MoveInMacVlan(u) ==
  /\ \E devName \in Devices, placement \in Placements :
       LET r == addMacVlan(nsExists[u], devName, placement, hostLinks,
                           nsLinks[u], EveryLink)
       IN  /\ hostLinks' = r.host
           /\ nsLinks' = [nsLinks EXCEPT ![u] = r.nsl]
           /\ lastRet' = RetMove("macvlan", u, devName, r.err)
  /\ UNCHANGED <<ctrlVars, driverKind, linkUp, nsExists, resourceFile, tableVars, active,
                 podState, hookWaiting, published, ghostVars>>

\* MoveIn, ipvlan mode: an ipvlan slave of a host link for the workload.
MoveInIPVlan(u) ==
  /\ \E devName \in Devices, placement \in Placements :
       LET r == addIPVlan(nsExists[u], devName, placement, hostLinks,
                          nsLinks[u], EveryLink)
       IN  /\ hostLinks' = r.host
           /\ nsLinks' = [nsLinks EXCEPT ![u] = r.nsl]
           /\ lastRet' = RetMove("ipvlan", u, devName, r.err)
  /\ UNCHANGED <<ctrlVars, driverKind, linkUp, nsExists, resourceFile, tableVars, active,
                 podState, hookWaiting, published, ghostVars>>

\* MoveOut of a workload's slave.
MoveOutSlave(u) ==
  /\ \E kind \in SubKinds, devName \in Devices :
       LET r == NsDeleteSlave(nsExists[u], SlaveName(kind, devName), hostLinks,
                              nsLinks[u])
       IN  /\ hostLinks' = r.host
           /\ nsLinks' = [nsLinks EXCEPT ![u] = r.nsl]
           /\ lastRet' = RetMove("moveout-" \o kind, u, devName, r.err)
  /\ UNCHANGED <<ctrlVars, driverKind, linkUp, nsExists, resourceFile, tableVars, active,
                 podState, hookWaiting, published, ghostVars>>

Next ==
  \E u \in UIDs :
       \/ PrepareBegin(u)
       \/ PrepareEnd(u)
       \/ UnprepareBegin(u)
       \/ UnprepareEnd(u)
       \/ SandboxCreateWait(u)
       \/ SandboxCreateDeadline(u)
       \/ SandboxCreateBegin(u)
       \/ SandboxCreateEnd(u)
       \/ SandboxStopBegin(u)
       \/ SandboxStopEnd(u)
       \/ SandboxEventAfterCleaned(u)
       \/ NamespaceRemoved(u)

\* The hostdevice driver.
Spec == Init /\ [][Next]_vars

\* The device registry alone, on any host inventory: which links the host
\* holds and which of them are up.
InitRegistry ==
  /\ driverKind = "hostdevice"
  /\ hostLinks \in SUBSET AllLinks
  /\ linkUp \in [AllLinks -> BOOLEAN]
  /\ resourceFile = FileAbsent
  /\ InitFramework

NextRegistry == PublishDevices

SpecRegistry == InitRegistry /\ [][NextRegistry]_vars

\* The namespace mover alone, in its three modes, on a host that may lack one
\* of the links.
InitMover ==
  /\ driverKind = "hostdevice"
  /\ hostLinks \in {AllLinks, AllLinks \ {"eth1"}}
  /\ linkUp = [l \in AllLinks |-> TRUE]
  /\ resourceFile = FileAbsent
  /\ InitFramework

NextMover ==
  \E u \in UIDs :
       \/ MoveInDirect(u)
       \/ MoveOutDirect(u)
       \/ MoveInMacVlan(u)
       \/ MoveInIPVlan(u)
       \/ MoveOutSlave(u)
       \/ NamespaceRemoved(u)

SpecMover == InitMover /\ [][NextMover]_vars

\* The namespace mover in direct mode, next to the inventory publication.
NextDirect ==
  \/ \E u \in UIDs :
       \/ MoveInDirect(u)
       \/ MoveOutDirect(u)
       \/ NamespaceRemoved(u)
  \/ PublishDevices

SpecDirect == InitMover /\ [][NextDirect]_vars

\* The node agent.
SpecAgent == InitAgent /\ [][Next]_vars

\* The hostdevice driver under the scheduling the hooks rely on: a call that
\* has started returns, and a waiting sandbox-create hook keeps retrying and
\* gets the UID's lock if it is free again and again.
SpecLive ==
  /\ Init
  /\ [][Next]_vars
  /\ \A u \in UIDs :
       /\ SF_vars(hookWaiting[u] /\ SandboxCreateBegin(u))
       /\ WF_vars(SandboxCreateEnd(u))
       /\ WF_vars(PrepareEnd(u))
       /\ WF_vars(UnprepareEnd(u))
       /\ WF_vars(SandboxStopEnd(u))

-----------------------------------------------------------------------------
(* The watch controller's event handlers (NewController) *)

driverVars == <<driverKind, netVars, resourceFile, tableVars, active, podState,
                hookWaiting, published, lastRet, ghostVars>>

\* AddFunc: a claim the informer had not seen.
AddEvent(c) ==
  /\ informer[c].phase = "unseen"
  /\ \E claim \in ClaimObjects, getApi \in ApiOutcomes, createApi \in ApiOutcomes :
       /\ claim.UID = c
       /\ LET r == addOrUpdate(claim, deviceClasses, slices, getApi, createApi)
          IN  /\ slices' = r.store
              /\ handled' = Handled("add", c, r.log, SlicesOf(slices, c) # {})
       /\ informer' = [informer EXCEPT ![c] = Cached(claim)]
  /\ UNCHANGED <<deviceClasses, driverVars>>

\* UpdateFunc: a newer version of a claim the informer holds.
UpdateEvent(c) ==
  /\ informer[c].phase = "cached"
  /\ \E claim \in ClaimObjects, getApi \in ApiOutcomes, createApi \in ApiOutcomes :
       /\ claim.UID = c
       /\ claim.ResourceVersion > informer[c].claim.ResourceVersion
       /\ LET r == addOrUpdate(claim, deviceClasses, slices, getApi, createApi)
          IN  /\ slices' = r.store
              /\ handled' = Handled("update", c, r.log, SlicesOf(slices, c) # {})
       /\ informer' = [informer EXCEPT ![c] = Cached(claim)]
  /\ UNCHANGED <<deviceClasses, driverVars>>

\* DeleteFunc: a claim the informer holds is gone; the handler gets the claim
\* as last seen, or a tombstone that holds it.
DeleteEvent(c) ==
  /\ informer[c].phase = "cached"
  /\ \E kind \in ObjectKinds, api \in ApiOutcomes :
       LET r == delete(kind, informer[c].claim, slices, api)
       IN  /\ slices' = r.store
           /\ handled' = Handled("delete", c, r.log, SlicesOf(slices, c) # {})
  /\ informer' = [informer EXCEPT ![c] = Gone(informer[c].claim)]
  /\ UNCHANGED <<deviceClasses, driverVars>>

\* The cluster's DeviceClasses come and go.
DeviceClassAdded(name) ==
  /\ name \notin deviceClasses
  /\ deviceClasses' = deviceClasses \cup {name}
  /\ UNCHANGED <<slices, informer, handled, driverVars>>

DeviceClassRemoved(name) ==
  /\ name \in deviceClasses
  /\ deviceClasses' = deviceClasses \ {name}
  /\ UNCHANGED <<slices, informer, handled, driverVars>>

NextController ==
  \/ \E c \in ClaimUIDs :
       \/ AddEvent(c)
       \/ UpdateEvent(c)
       \/ DeleteEvent(c)
  \/ \E name \in DeviceClassNames :
       \/ DeviceClassAdded(name)
       \/ DeviceClassRemoved(name)

\* The watch controller.
SpecController == Init /\ [][NextController]_vars

-----------------------------------------------------------------------------
(* Steps, as seen from outside *)

\* The call op for u returns in this step.
Returns(u, op) == op \in active[u] /\ op \notin active'[u]

-----------------------------------------------------------------------------
(* Properties *)

\* C1: a PrepareDevice for a UID that already has a PreparedState (a retry with
\* no successful UnprepareDevice in between) succeeds, returns the PreparedState
\* the first call returned, leaves the table and the resource file as they
\* are, and the driver has prepared the UID and written the file once in all.
PrepareIsIdempotent ==
  [][\A u \in UIDs :
       (Returns(u, "prepare") /\ HasPreparedState(u)) =>
         /\ lastRet'.op = "prepare" /\ lastRet'.uid = u /\ lastRet'.res = "ok"
         /\ lastRet'.state = firstState[u]
         /\ UNCHANGED <<resourceFile, PodDeviceConfig, PreparedData>>
         /\ driverPrepares'[u] = 1
         /\ fileWrites'[u] = 1]_vars

\* C1 witness: a retry for a prepared UID has returned its PreparedState.
PrepareRetried ==
  /\ lastRet.op = "prepare" /\ lastRet.res = "ok" /\ lastRet.hit
  /\ lastRet.state.data = Str(lastRet.uid)
  /\ resourceFile = FileWith(lastRet.uid)

\* C2: no device name is listed in the PreparedState of two different UIDs.
DeviceClaimedByAtMostOneWorkload ==
  \A u, v \in UIDs : u # v => DeviceNames(u) \cap DeviceNames(v) = {}

\* C3: a link is inside a workload's namespace only while the workload's UID
\* has a PreparedState.
InNamespaceOnlyWhilePrepared ==
  \A u \in UIDs : nsLinks[u] # {} => HasPreparedState(u)

UnprepareCleanIsNoop ==
  [][\A u \in UIDs :
       Returns(u, "unprepare") =>
         /\ lastRet'.op = "unprepare" /\ lastRet'.uid = u
         /\ ~HasPreparedState(u) =>
              /\ lastRet'.res = "ok"
              /\ UNCHANGED <<resourceFile, PodDeviceConfig, PreparedData,
                             hostLinks, nsLinks>>
         /\ (HasPreparedState(u) /\ lastRet'.res = "ok") =>
              /\ u \notin DOMAIN PreparedData'
              /\ u \notin DOMAIN PodDeviceConfig']_vars

\* C5 witness: UnprepareDevice returned for a UID without PreparedState while
\* another UID holds the resource.
UnpreparedCleanUID ==
  /\ lastRet.op = "unprepare" /\ lastRet.res = "ok" /\ ~lastRet.hit
  /\ \E v \in UIDs \ {lastRet.uid} :
       HasPreparedState(v) /\ resourceFile = FileWith(v)

\* C6: at most one operation is in flight for a UID, and an operation for a UID
\* with none in flight can start whatever is in flight for the other UIDs.
SerializedPerUID ==
  \A u \in UIDs :
    /\ Cardinality(active[u]) <= 1
    /\ active[u] = {} =>
         /\ ENABLED PrepareBegin(u)
         /\ ENABLED UnprepareBegin(u)

\* C6 witness: operations for two UIDs are in flight together.
TwoUIDsInFlight ==
  \E u, v \in UIDs : u # v /\ active[u] # {} /\ active[v] # {}
\* The workload whose hook the liveness half of C7 follows (the UIDs are
\* interchangeable).
HookUID == "u1"

\* C7: a sandbox-create hook that finds no PreparedState waits: it reports
\* nothing and moves nothing.  A failure of the hook is reported only after a
\* failed move, or as a timeout while the hook waits and the PreparedState is
\* still missing.  Once the PreparedState is there the waiting hook proceeds to
\* Configuring (unless the PreparedState is removed again), and from
\* Configuring to Configured or, after a failed move, back to Unconfigured.
HookWaitsForPreparedState ==
  /\ [][\A u \in UIDs :
          (~hookWaiting[u] /\ hookWaiting'[u]) =>
            /\ ~HasPreparedState(u)
            /\ UNCHANGED <<lastRet, hostLinks, nsLinks, podState>>]_vars
  /\ [][(lastRet' # lastRet /\ lastRet'.op = "create" /\ lastRet'.res # "ok") =>
          \/ Returns(lastRet'.uid, "configure")
          \/ /\ lastRet'.res = "timeout"
             /\ hookWaiting[lastRet'.uid]
             /\ ~HasPreparedState(lastRet'.uid)]_vars
  /\ [][\A u \in UIDs :
          hookWaiting'[u] => (podState'[u] = "Unconfigured" /\ nsLinks'[u] = {})]_vars
  /\ (hookWaiting[HookUID] /\ HasPreparedState(HookUID))
       ~> (podState[HookUID] = "Configuring" \/ ~HasPreparedState(HookUID))
  /\ (podState[HookUID] = "Configuring")
       ~> (podState[HookUID] \in {"Configured", "Unconfigured"})

\* C7 witness: the hook arrived first and waits, and the PreparedState has
\* appeared.
HookWaitingAndPrepared ==
  /\ hookWaiting[HookUID] /\ HasPreparedState(HookUID) /\ active[HookUID] = {}
  /\ podState[HookUID] = "Unconfigured"

\* C8: a sandbox-stop hook that runs when the workload's namespace no longer
\* exists returns no error and the workload reaches Cleaned; the host inventory
\* is left as it is.
StopAfterNamespaceGone ==
  [][\A u \in UIDs :
       (Returns(u, "cleanup") /\ ~nsExists[u]) =>
         /\ lastRet'.op = "stop" /\ lastRet'.uid = u /\ lastRet'.res = "ok"
         /\ podState'[u] = "Cleaned"
         /\ hostLinks' = hostLinks]_vars

\* C8 witness: the stop hook of a prepared workload returned after the
\* namespace had vanished with the workload's link in it.
StoppedWithoutNamespace ==
  /\ lastRet.op = "stop" /\ lastRet.res = "ok" /\ lastRet.hit
  /\ ~nsExists[lastRet.uid] /\ podState[lastRet.uid] = "Cleaned"
  /\ HasPreparedState(lastRet.uid)
  /\ PreparedData[lastRet.uid].val \notin hostLinks
  /\ \A v \in UIDs \ {lastRet.uid} :
       ~HasPreparedState(v) /\ podState[v] = "Unconfigured" /\ nsExists[v]

VirtualLinks == {"veth0", "docker0", "cni0"}

\* C10: GetDevices returns, once each and under its own name, exactly the host
\* links that are up, are not loopback and are not virtual; what was published
\* is what GetDevices still returns; a host with only lo and a down eth0 has
\* nothing to list.
ListsAssignableLinks ==
  LET devs == hostdeviceGetDevices(hostLinks, linkUp)
      expected == {l \in hostLinks :
                     linkUp[l] /\ ~IsLoopback(l) /\ l \notin VirtualLinks}
  IN  /\ {devs[i].Name : i \in 1..Len(devs)} = expected
      /\ Len(devs) = Cardinality(expected)
      /\ \A i \in 1..Len(devs) : devs[i].InterfaceName = devs[i].Name
      /\ published # <<>> => published = devs
      /\ (hostLinks = {"lo", "eth0"} /\ ~linkUp["eth0"]) => devs = <<>>

\* C10 witness: an inventory was published from a host that also holds the
\* loopback, a virtual link and a link that is down.
PublishedFiltered ==
  /\ published # <<>>
  /\ {"lo", "veth0", "vet1"} \subseteq hostLinks
  /\ \E l \in hostLinks \cap Devices : ~linkUp[l]
  /\ \E i \in 1..Len(published) : published[i].Name = "vet1"

\* C11: a PrepareDevice that reaches the driver with a claim that has no
\* allocation, or an allocation without device results, returns an error,
\* creates no PreparedState entry for the UID and changes neither the resource
\* file nor any link.
NoAllocationFailsWithoutEffect ==
  [][\A u \in UIDs :
       (Returns(u, "prepare") /\ lastRet'.noalloc) =>
         /\ lastRet'.op = "prepare" /\ lastRet'.uid = u /\ lastRet'.res = "error"
         /\ u \notin DOMAIN PreparedData' /\ u \notin DOMAIN PodDeviceConfig'
         /\ UNCHANGED <<resourceFile, PodDeviceConfig, PreparedData, hostLinks,
                        nsLinks>>]_vars

\* C12: a MoveIn of a slave on a parent that has a slave of the other kind
\* fails with a conflict error whose message names the existing slave and
\* leaves the links of the host and of every workload namespace as they are;
\* no parent ever has a macvlan and an ipvlan slave together.
SlaveKindsExclude ==
  /\ [][(lastRet' # lastRet /\ lastRet'.op \in SubKinds
            /\ HasSlave(OtherKind(lastRet'.op), lastRet'.dev, EveryLink)) =>
          /\ lastRet'.res = "conflict"
          /\ lastRet'.names = {SlaveName(OtherKind(lastRet'.op), lastRet'.dev)}
          /\ UNCHANGED <<hostLinks, nsLinks>>]_vars
  /\ [][\A d \in Devices :
          ~(HasSlave("macvlan", d, EveryLink') /\ HasSlave("ipvlan", d, EveryLink'))]_vars

\* C13: from any state, for any workload namespace, any interface name and
\* any mode, a MoveIn that succeeds followed by a MoveOut on the same namespace
\* that succeeds leaves the host with the links it held before the MoveIn.
RoundTripRestoresHost ==
  \A u \in UIDs, devName \in Devices :
    /\ LET in == hostdeviceConfigureDeviceForPod([Name |-> devName], nsExists[u],
                    Str(devName), hostLinks, nsLinks[u], FALSE)
           out == hostdeviceCleanupDeviceForPod([Name |-> devName], nsExists[u],
                    Str(devName), in.host, in.nsl)
       IN  (~in.err /\ ~out.err) => out.host = hostLinks
    /\ \A kind \in SubKinds, placement \in Placements :
         LET in == addSlave(kind, nsExists[u], devName, placement, hostLinks,
                            nsLinks[u], EveryLink)
             out == NsDeleteSlave(nsExists[u], SlaveName(kind, devName),
                                  in.host, in.nsl)
         IN  (in.err = NoError /\ out.err = NoError) => out.host = hostLinks

PreparedStateNeverPartial ==
  /\ [][DOMAIN PodDeviceConfig' = DOMAIN PreparedData']_vars
  /\ [][\A u \in UIDs :
          /\ (~HasPreparedState(u) /\ u \in DOMAIN PreparedData') =>
               /\ Returns(u, "prepare")
               /\ lastRet'.op = "prepare" /\ lastRet'.uid = u /\ lastRet'.res = "ok"
               /\ driverPrepares'[u] = 1
          /\ (HasPreparedState(u) /\ u \notin DOMAIN PreparedData') =>
               /\ Returns(u, "unprepare")
               /\ lastRet'.op = "unprepare" /\ lastRet'.uid = u
               /\ lastRet'.res = "ok"
          /\ (HasPreparedState(u) /\ u \in DOMAIN PreparedData') =>
               /\ PreparedData'[u] = PreparedData[u]
               /\ PodDeviceConfig'[u] = PodDeviceConfig[u]]_vars

\* C15 witness: an UnprepareDevice has failed for a prepared UID whose claim
\* had no allocated devices, while a call for the other UID is in flight.
UnprepareFailedWhileOtherInFlight ==
  /\ lastRet.op = "unprepare" /\ lastRet.res = "error"
  /\ HasPreparedState(lastRet.uid)
  /\ PodDeviceConfig[lastRet.uid] = <<>>
  /\ \E v \in UIDs \ {lastRet.uid} : active[v] # {}

\* The names ListDevices returns.
ListedNames ==
  LET devs == hostdeviceGetDevices(hostLinks, linkUp)
  IN  {devs[i].Name : i \in 1..Len(devs)}

\* A direct MoveIn of devName for u returns success in this step.
MovedIn(u, devName) ==
  /\ lastRet' # lastRet /\ lastRet'.op = "direct" /\ lastRet'.res = "ok"
  /\ lastRet'.uid = u /\ lastRet'.dev = devName

\* A direct MoveOut of devName for u returns success in this step.
MovedOut(u, devName) ==
  /\ lastRet' # lastRet /\ lastRet'.op = "moveout-direct" /\ lastRet'.res = "ok"
  /\ lastRet'.uid = u /\ lastRet'.dev = devName

\* After this step the link is in u's namespace and nowhere else.
OnlyInNamespace(u, devName) ==
  /\ devName \in nsLinks'[u]
  /\ devName \notin hostLinks'
  /\ \A v \in UIDs \ {u} : devName \notin nsLinks'[v]

\* ListDevices returns no link that is not on the host.
ListsHostLinksOnly == ListedNames \subseteq hostLinks

\* What C16 says of a step, but for how long the link stays in the namespace:
\* a successful direct MoveIn leaves the link in that namespace only; a direct
\* MoveIn of a link that is in another workload's namespace fails and moves
\* nothing; a successful MoveOut of a link that is in the namespace puts it
\* back on the host under its name.
DirectMoveSteps ==
  \A u \in UIDs, devName \in Devices :
    /\ MovedIn(u, devName) => OnlyInNamespace(u, devName)
    /\ (/\ lastRet' # lastRet /\ lastRet'.op = "direct"
        /\ lastRet'.uid = u /\ lastRet'.dev = devName
        /\ \E v \in UIDs \ {u} : devName \in nsLinks[v]) =>
         /\ lastRet'.res # "ok"
         /\ UNCHANGED <<hostLinks, nsLinks>>
    /\ (MovedOut(u, devName) /\ devName \in nsLinks[u]) =>
         /\ devName \in hostLinks'
         /\ devName \notin nsLinks'[u]

\* C16, as stated: a link that a direct MoveIn has put in a workload's
\* namespace stays in that namespace only, absent from the host and from
\* ListDevices, through every step but the matching MoveOut.
DirectMoveExclusiveUntilMoveOut ==
  /\ []ListsHostLinksOnly
  /\ [][/\ DirectMoveSteps
     /\ \A u \in UIDs, devName \in Devices :
          (devName \in nsLinks[u] /\ ~MovedOut(u, devName)) =>
            OnlyInNamespace(u, devName)]_vars

\* C16, amended: the same, through every step but the matching MoveOut and
\* the removal of the workload's namespace; after the removal the link is in
\* no namespace and not on the host.
DirectMoveExclusive ==
  /\ []ListsHostLinksOnly
  /\ [][/\ DirectMoveSteps
     /\ \A u \in UIDs, devName \in Devices :
          /\ (devName \in nsLinks[u] /\ ~MovedOut(u, devName) /\ nsExists'[u]) =>
               OnlyInNamespace(u, devName)
          /\ (devName \in nsLinks[u] /\ ~nsExists'[u]) =>
               /\ devName \notin hostLinks'
               /\ \A v \in UIDs : devName \notin nsLinks'[v]]_vars

\* C16 witness: a direct MoveIn of a link that is in the other workload's
\* namespace has failed, and the published inventory does not list the link.
SecondMoveInRefused ==
  /\ lastRet.op = "direct" /\ lastRet.res # "ok"
  /\ \E v \in UIDs \ {lastRet.uid} : lastRet.dev \in nsLinks[v]
  /\ nsExists[lastRet.uid]
  /\ published # <<>>
  /\ \A i \in 1..Len(published) : published[i].Name # lastRet.dev

\* C17: a successful MoveIn in a sub-interface mode leaves the parent on the
\* host and puts the new slave in the target namespace and not on the host; a
\* MoveIn for a workload whose namespace exists and holds no such slave yet, on
\* a parent that is on the host and already backs a slave of the same kind in
\* another workload's namespace, succeeds.
SlavePlacedInTargetNamespace ==
  [][\A u \in UIDs, devName \in Devices, kind \in SubKinds :
       (/\ lastRet' # lastRet /\ lastRet'.op = kind
        /\ lastRet'.uid = u /\ lastRet'.dev = devName) =>
         /\ lastRet'.res = "ok" =>
              /\ devName \in hostLinks'
              /\ SlaveName(kind, devName) \in nsLinks'[u]
              /\ SlaveName(kind, devName) \notin hostLinks'
              /\ hostLinks' = hostLinks
         /\ (/\ nsExists[u] /\ devName \in hostLinks
             /\ SlaveName(kind, devName) \notin nsLinks[u]
             /\ \E v \in UIDs \ {u} : SlaveName(kind, devName) \in nsLinks[v]) =>
              lastRet'.res = "ok"]_vars

\* C18: a workload that is Cleaned stays Cleaned, no call for it is in flight
\* in the dispatcher, and a sandbox-create or sandbox-stop hook that returns
\* for it returns no error and changes no link, no namespace and no entry of
\* the table.
CleanedIsTerminal ==
  [][\A u \in UIDs :
       podState[u] = "Cleaned" =>
         /\ podState'[u] = "Cleaned"
         /\ "configure" \notin active'[u] /\ "cleanup" \notin active'[u]
         /\ ~hookWaiting'[u]
         /\ (/\ lastRet' # lastRet /\ lastRet'.uid = u
             /\ lastRet'.op \in {"create", "stop"}) =>
              /\ lastRet'.res = "ok"
              /\ UNCHANGED <<hostLinks, nsLinks, nsExists, PodDeviceConfig,
                             PreparedData, podState, resourceFile>>]_vars

\* C18 witness: a sandbox-create hook has returned for a Cleaned workload that
\* is prepared and whose link is on the host, ready to be moved.
CreateAfterCleanedIgnored ==
  /\ lastRet.op = "create" /\ lastRet.res = "ok" /\ ~lastRet.hit
  /\ podState[lastRet.uid] = "Cleaned"
  /\ HasPreparedState(lastRet.uid) /\ nsExists[lastRet.uid]
  /\ PreparedData[lastRet.uid].val \in hostLinks
  /\ nsLinks[lastRet.uid] = {}

\* C19: for a sandbox-create or sandbox-stop call in flight, whatever part of
\* its moves is applied when its deadline expires, the retry of the call ends
\* as the uninterrupted call ends: with the same result, the same links on the
\* host and the same links in the namespace, every device of the workload in
\* one of the two and not in both.
RetryAfterDeadlineEndsAsUninterrupted ==
  \A u \in UIDs :
    LET st == PreparedStateOf(u)
        n == Len(st.devices)
    IN  /\ "configure" \in active[u] =>
             LET full == ConfigureAll(driverKind, st.devices, 1, nsExists[u],
                                      st.data, hostLinks, nsLinks[u], 0)
             IN  \A upto \in 1..n :
                   LET part == ConfigureUntil(driverKind, st.devices, 1, upto,
                                 nsExists[u], st.data, hostLinks, nsLinks[u])
                       retry == ConfigureAll(driverKind, st.devices, 1,
                                  nsExists[u], st.data, part.host, part.nsl, 0)
                   IN  ~part.err =>
                         /\ retry.err = full.err
                         /\ retry.host = full.host /\ retry.nsl = full.nsl
                         /\ \A d \in DeviceNames(u) :
                              ~(d \in retry.host /\ d \in retry.nsl)
        /\ "cleanup" \in active[u] =>
             LET full == CleanupAll(driverKind, st.devices, 1, nsExists[u],
                                    st.data, hostLinks, nsLinks[u])
             IN  \A upto \in 1..n :
                   LET part == CleanupUntil(driverKind, st.devices, 1, upto,
                                 nsExists[u], st.data, hostLinks, nsLinks[u])
                       retry == CleanupAll(driverKind, st.devices, 1,
                                  nsExists[u], st.data, part.host, part.nsl)
                   IN  ~part.err =>
                         /\ retry.err = full.err
                         /\ retry.host = full.host /\ retry.nsl = full.nsl
                         /\ \A d \in DeviceNames(u) :
                              ~(d \in retry.host /\ d \in retry.nsl)

\* C20: in the node agent, when some UID has a PreparedState the resource
\* file holds the UID of a prepared claim, and when none has one the file, if
\* it exists, is empty.
FileRecordsAHolder ==
  /\ DOMAIN PreparedData # {} =>
       /\ resourceFile.exists
       /\ resourceFile.content \in DOMAIN PreparedData
  /\ DOMAIN PreparedData = {} => resourceFile.content = ""

\* C21: in the node agent, a PrepareDevice or UnprepareDevice call that
\* returns leaves the result of GetDevices as it was before the call.
PrepareKeepsAdvertisedInventory ==
  [][\A u \in UIDs :
       (driverKind = "nodeagent"
          /\ (Returns(u, "prepare") \/ Returns(u, "unprepare")))
       => nodeAgentGetDevices(resourceFile') = nodeAgentGetDevices(resourceFile)]_vars

\* The half of C21 about UnprepareDevice alone.
UnprepareKeepsAdvertisedInventory ==
  [][\A u \in UIDs :
       (driverKind = "nodeagent" /\ Returns(u, "unprepare"))
       => nodeAgentGetDevices(resourceFile') = nodeAgentGetDevices(resourceFile)]_vars

\* The step in which the add or update handler of the claim returns, and the
\* one in which the delete handler does.
AddOrUpdateHandled(c) ==
  /\ informer[c].phase \in {"unseen", "cached"}
  /\ informer'[c].phase = "cached"
  /\ informer'[c] # informer[c]

DeleteHandled(c) ==
  informer[c].phase = "cached" /\ informer'[c].phase = "deleted"

\* C22: every claim has at most one ResourceSlice, named controllerName-UID;
\* an add or update event for a claim that has a slice changes no slice and
\* ends with the "already exists" line or before the Create call, and one for
\* a claim that has no allocation, or names another device class than the
\* driver's, changes no slice.
AtMostOneSlicePerClaim ==
  /\ [](\A c \in ClaimUIDs :
          /\ Cardinality(SlicesOf(slices, c)) <= 1
          /\ \A s \in SlicesOf(slices, c) : s.Name = controllerName \o "-" \o c)
  /\ [](\A s \in slices : s.Owner \in ClaimUIDs)
  /\ [][\A c \in ClaimUIDs :
          AddOrUpdateHandled(c) =>
            LET claim == informer'[c].claim
            IN  /\ handled'.had =>
                     /\ slices' = slices
                     /\ handled'.log # "created"
                /\ (~claim.Allocated \/ claim.DeviceClassName # driverName) =>
                     /\ slices' = slices
                     /\ handled'.log \in {"no-allocation", "error-get-class",
                                           "not-relevant"}
                /\ slices' # slices =>
                     /\ slices' = slices \cup SlicesOf(slices', c)
                     /\ handled'.log = "created"]_vars

\* An update of a claim that has its slice ended with "already exists", while
\* the other claim, handled without an allocation, has none.
UpdateFoundItsSlice ==
  /\ handled.op = "update"
  /\ handled.log = "already-exists"
  /\ handled.had
  /\ SlicesOf(slices, handled.uid) # {}
  /\ \E c \in ClaimUIDs \ {handled.uid} :
       /\ informer[c].phase = "cached"
       /\ ~informer[c].claim.Allocated
       /\ SlicesOf(slices, c) = {}

\* C23: once the delete event of a claim is handled, the claim has no
\* ResourceSlice, then and ever after; a delete for a claim that has no slice
\* logs no error; and no delete changes the slices of another claim.
NoSliceAfterDelete ==
  /\ [][\A c \in ClaimUIDs :
          DeleteHandled(c) =>
            /\ SlicesOf(slices', c) = {}
            /\ ~handled'.had => handled'.log = "deleted"
            /\ \A o \in ClaimUIDs \ {c} :
                 SlicesOf(slices', o) = SlicesOf(slices, o)]_vars
  /\ [](\A c \in ClaimUIDs :
          informer[c].phase = "deleted" => SlicesOf(slices, c) = {})

\* What holds of C23 when the Delete call is answered by the API server.
NoSliceAfterAnsweredDelete ==
  [][\A c \in ClaimUIDs :
       DeleteHandled(c) =>
         /\ handled'.log = "deleted" => SlicesOf(slices', c) = {}
         /\ handled'.log = "error-delete" => slices' = slices
         /\ \A o \in ClaimUIDs \ {c} :
              SlicesOf(slices', o) = SlicesOf(slices, o)]_vars

====
